---- MODULE Spec2Model ----
(***************************************************************************)
(* AtmosphereModel (src/assets/scripts/client/environment/                 *)
(* AtmosphereModel.js): construction of the sea-level values and of the    *)
(* three per-foot gradients, and the query methods.                        *)
(*                                                                         *)
(* A number that the program computes in floating point is kept as the     *)
(* text of the expression that computes it (an uninterpreted term), except *)
(* where IEEE-754 fixes the result exactly: NaN propagation, x * 0, x * 1, *)
(* x - 0, x - x, x / x, x ** 0.                                            *)
(***************************************************************************)
EXTENDS Integers, Sequences, FiniteSets, TLC

VARIABLES data, step, thrown,
          seaLevelTemperature, seaLevelPressure, seaLevelWindVector,
          densityGradient, pressureGradient, temperatureGradient,
          result

vars == <<data, step, thrown, seaLevelTemperature, seaLevelPressure,
          seaLevelWindVector, densityGradient, pressureGradient,
          temperatureGradient, result>>

model == <<seaLevelTemperature, seaLevelPressure, seaLevelWindVector,
           densityGradient, pressureGradient, temperatureGradient>>

---------------------------------------------------------------------------
(* Bounds of the inputs *)

\* query altitudes are multiples of 1/AltDen ft
AltDen == 2
\* surface wind speeds 0..MaxWindSpeed kt
MaxWindSpeed == 1

---------------------------------------------------------------------------
(* JavaScript values *)

\* A value is a string: "undefined", "NaN", a string literal in quotes, or
\* the text of a number
Undefined == "undefined"
NaN == "NaN"
Str(s) == "'" \o s \o "'"
Num(s) == s
IntNum(i) == ToString(i)

\* the string literal of line 126
CalculatedNewValue == Str("calculated new value")

\* the string values of the program
StringValues == {CalculatedNewValue}

TypeOf(x) ==
    IF x = Undefined THEN "undefined"
    ELSE IF x \in StringValues THEN "string"
    ELSE "number"

\* ToNumber: undefined -> NaN; a string that is no numeric literal -> NaN
ToNumber(x) == IF TypeOf(x) = "number" THEN x ELSE NaN

JsMul(a, b) ==
    LET x == ToNumber(a)
        y == ToNumber(b)
    IN  IF x = NaN \/ y = NaN THEN NaN
        ELSE IF x = "0" \/ y = "0" THEN "0"
        ELSE IF y = "1" THEN x
        ELSE IF x = "1" THEN y
        ELSE "(" \o x \o "*" \o y \o ")"

JsSub(a, b) ==
    LET x == ToNumber(a)
        y == ToNumber(b)
    IN  IF x = NaN \/ y = NaN THEN NaN
        ELSE IF y = "0" THEN x
        ELSE IF x = y THEN "0"
        ELSE "(" \o x \o "-" \o y \o ")"

JsDiv(a, b) ==
    LET x == ToNumber(a)
        y == ToNumber(b)
    IN  IF x = NaN \/ y = NaN THEN NaN
        ELSE IF x = "0" /\ y = "0" THEN NaN
        ELSE IF x = y THEN "1"
        ELSE "(" \o x \o "/" \o y \o ")"

\* x ** 0 is 1 for every x, NaN included; otherwise NaN propagates
JsPow(a, b) ==
    LET x == ToNumber(a)
        y == ToNumber(b)
    IN  IF y = NaN THEN NaN
        ELSE IF y = "0" THEN "1"
        ELSE IF x = NaN THEN NaN
        ELSE "(" \o x \o "**" \o y \o ")"

\* a === b
StrictEquals(a, b) == a # NaN /\ b # NaN /\ a = b

\* An object with integer keys is held as the set of its runs: a run
\* [lo, hi, v] says that every key lo..hi has the value v, and runs are
\* maximal, so that an object has exactly one such set.

\* the object literal {}
EmptyObject == {}

\* the object that has, for each pair <<key, value>> of entries, the
\* property key with that value (one pair for a key)
ObjectOf(entries) ==
    LET starts == {e \in entries : <<e[1] - 1, e[2]>> \notin entries}
        ends == {e \in entries : <<e[1] + 1, e[2]>> \notin entries}
    IN  {[lo |-> b[1],
          hi |-> CHOOSE h \in {e[1] : e \in ends} :
                     h >= b[1] /\ \A e \in ends : e[1] >= b[1] => h <= e[1],
          v |-> b[2]] : b \in starts}

\* Object.keys(obj)
Keys(obj) == UNION {r.lo..r.hi : r \in obj}

HasKey(obj, k) == \E r \in obj : r.lo <= k /\ k <= r.hi

\* obj[key] for an integer key: undefined when the object has no such property
Get(obj, k) ==
    IF HasKey(obj, k)
    THEN (CHOOSE r \in obj : r.lo <= k /\ k <= r.hi).v
    ELSE Undefined

---------------------------------------------------------------------------
(* ENVIRONMENT (constants/environmentConstants) *)

DEFAULT_SEA_LEVEL_TEMPERATURE_K == Num("288.15")
DEFAULT_SEA_LEVEL_TEMPERATURE == Num("288.15")
DEFAULT_SEA_LEVEL_PRESSURE_INHG == Num("29.92")
DEFAULT_SEA_LEVEL_WIND_VECTOR == [t |-> "array", x |-> 0, y |-> 0]

\* a property that was never assigned (line 40 is commented out)
UndefinedVector == [t |-> "undefined", x |-> 0, y |-> 0]

---------------------------------------------------------------------------
(* Literals of the gradient builders *)

MIN_ALTITUDE == -2000
MAX_ALTITUDE == 65617
TROPOPAUSE == 36089
LAPSE_RATE == Num("0.00198121311")
PRESSURE_EXPONENT == Num("5.255876329")
B1_DECAY == Num("-0.0000480634303")
DENSITY_FACTOR == Num("11.796888418")
MathE == Num("Math.E")

---------------------------------------------------------------------------
(* Helpers imported by the module *)

Min(a, b) == IF a <= b THEN a ELSE b
Max(a, b) == IF a >= b THEN a ELSE b

\* lodash inRange(number, start, end): start inclusive, end exclusive
\* (all three in units of 1/AltDen ft)
InRange(number, start, end) ==
    number >= Min(start, end) /\ number < Max(start, end)

\* sine and cosine of the headings the inputs use
Sin(deg) == CASE deg = 0 -> 0 [] deg = 90 -> 1 [] deg = 180 -> 0 [] deg = 270 -> -1
Cos(deg) == CASE deg = 0 -> 1 [] deg = 90 -> 0 [] deg = 180 -> -1 [] deg = 270 -> 0

\* vscale(vectorize_2d(degreesToRadians(angle)), speed)
ScaledWindVector(angle, speed) ==
    [t |-> "array", x |-> Sin(angle) * speed, y |-> Cos(angle) * speed]

---------------------------------------------------------------------------
(* Inputs *)

AbsentWind == [t |-> "undefined", angle |-> 0, speed |-> 0]
WindAngles == {0, 90}
SurfaceWinds ==
    {AbsentWind} \cup
    {[t |-> "object", angle |-> a, speed |-> s] :
        a \in WindAngles, s \in 0..MaxWindSpeed}
SurfaceTemperatures == {Undefined, Num("15")}
SurfaceElevations == {Undefined, Num("0")}

DataInputs ==
    [surfaceTemperature : SurfaceTemperatures,
     surfaceElevation : SurfaceElevations,
     surfaceWind : SurfaceWinds]

\* altitudes passed to the queries, in units of 1/AltDen ft: the integers
\* around both ends of the range, and two that are no integer
QueryAltitudes ==
    {a * AltDen : a \in {MIN_ALTITUDE - 1, MIN_ALTITUDE, 0, TROPOPAUSE,
                         MAX_ALTITUDE - 1, MAX_ALTITUDE, MAX_ALTITUDE + 1}}
    \cup {1, MAX_ALTITUDE * AltDen - 1}

\* the extension points ignore their argument (it is commented out)
NoArgument == 0

NoResult ==
    [method |-> "none", arg |-> NoArgument, outcome |-> "none", value |-> Undefined]

---------------------------------------------------------------------------
(* Construction *)

\* _init with the density builder called before the temperature builder
InitOrderDensityEarly ==
    << "_initTemperatureFromSurfaceTemperature",
       "_initWindFromSurfaceWind",
       "_initPressureGradient",
       "_initDensityGradient",
       "_initTemperatureGradient" >>

\* the calls of _init, in the order it makes them
InitOrder ==
    << "_initTemperatureFromSurfaceTemperature",
       "_initWindFromSurfaceWind",
       "_initPressureGradient",
       "_initTemperatureGradient",
       "_initDensityGradient" >>

Constructing(name) ==
    /\ thrown = "none"
    /\ step \in 1..Len(InitOrder)
    /\ InitOrder[step] = name

\* _init has returned this
Constructed == thrown = "none" /\ step = Len(InitOrder) + 1

\* the field initialisers of the constructor
Init ==
    /\ data \in DataInputs
    /\ step = 1
    /\ thrown = "none"
    /\ seaLevelTemperature = DEFAULT_SEA_LEVEL_TEMPERATURE_K
    /\ seaLevelPressure = DEFAULT_SEA_LEVEL_PRESSURE_INHG
    /\ seaLevelWindVector = UndefinedVector
    /\ densityGradient = EmptyObject
    /\ pressureGradient = EmptyObject
    /\ temperatureGradient = EmptyObject
    /\ result = NoResult

\* the assignment of line 126 follows the if of lines 122-124 on every path
SeaLevelTemperatureFrom(surfaceTemperature, current) ==
    LET afterDefault == IF TypeOf(surfaceTemperature) = "undefined"
                        THEN DEFAULT_SEA_LEVEL_TEMPERATURE
                        ELSE current
    IN  CalculatedNewValue

InitTemperatureFromSurfaceTemperature ==
    /\ Constructing("_initTemperatureFromSurfaceTemperature")
    /\ seaLevelTemperature' =
           SeaLevelTemperatureFrom(data.surfaceTemperature, seaLevelTemperature)
    /\ step' = step + 1
    /\ UNCHANGED <<data, thrown, seaLevelPressure, seaLevelWindVector,
                   densityGradient, pressureGradient, temperatureGradient, result>>

\* with surfaceWind undefined the default is assigned and then reading
\* surfaceWind.angle throws a TypeError out of the constructor
InitWindFromSurfaceWind ==
    /\ Constructing("_initWindFromSurfaceWind")
    /\ IF data.surfaceWind.t = "undefined"
       THEN /\ seaLevelWindVector' = DEFAULT_SEA_LEVEL_WIND_VECTOR
            /\ thrown' = "TypeError"
            /\ step' = step
       ELSE /\ seaLevelWindVector' =
                   ScaledWindVector(data.surfaceWind.angle, data.surfaceWind.speed)
            /\ thrown' = thrown
            /\ step' = step + 1
    /\ UNCHANGED <<data, seaLevelTemperature, seaLevelPressure,
                   densityGradient, pressureGradient, temperatureGradient, result>>

\* for (let alt = -2000; alt < 36089; alt++)
PressureB0Altitudes == MIN_ALTITUDE..(TROPOPAUSE - 1)
\* for (let alt = 36089; alt <= 65617; alt++)
PressureB1Altitudes == TROPOPAUSE..MAX_ALTITUDE

B0Pressure(b0ReferencePressure, b0ReferenceTemperature, alt) ==
    JsMul(b0ReferencePressure,
          JsPow(JsDiv(JsSub(b0ReferenceTemperature, JsMul(LAPSE_RATE, IntNum(alt))),
                      b0ReferenceTemperature),
                PRESSURE_EXPONENT))

B1Pressure(b1ReferencePressure, alt) ==
    JsMul(b1ReferencePressure,
          JsPow(MathE, JsMul(B1_DECAY, IntNum(alt - TROPOPAUSE))))

PressureGradientOf(slp, slt) ==
    LET b0ReferencePressure == slp
        b0ReferenceTemperature == slt
        b1ReferencePressure == B0Pressure(slp, b0ReferenceTemperature, TROPOPAUSE)
    IN  \* the second loop writes after the first
        ObjectOf({<<alt, IF alt \in PressureB1Altitudes
                        THEN B1Pressure(b1ReferencePressure, alt)
                        ELSE B0Pressure(b0ReferencePressure,
                                        b0ReferenceTemperature, alt)>> :
                    alt \in PressureB0Altitudes \cup PressureB1Altitudes})

InitPressureGradient ==
    /\ Constructing("_initPressureGradient")
    /\ pressureGradient' = PressureGradientOf(seaLevelPressure, seaLevelTemperature)
    /\ step' = step + 1
    /\ UNCHANGED <<data, thrown, seaLevelTemperature, seaLevelPressure,
                   seaLevelWindVector, densityGradient, temperatureGradient, result>>

\* for (let alt = -2000; alt < 36089; alt++)
TemperatureB0Altitudes == MIN_ALTITUDE..(TROPOPAUSE - 1)
\* the second loop with alt < 65617 as its test
TemperatureB1AltitudesExclusive == TROPOPAUSE..(MAX_ALTITUDE - 1)

\* for (let alt = 36089; alt <= 65617; alt++)
TemperatureB1Altitudes == TROPOPAUSE..MAX_ALTITUDE

B0Temperature(slt, alt) == JsSub(slt, JsMul(LAPSE_RATE, IntNum(alt)))
B1Temperature(slt) == JsSub(slt, JsMul(LAPSE_RATE, IntNum(TROPOPAUSE)))

TemperatureGradientOf(slt) ==
    \* the second loop writes after the first
    ObjectOf({<<alt, IF alt \in TemperatureB1Altitudes
                    THEN B1Temperature(slt)
                    ELSE B0Temperature(slt, alt)>> :
                alt \in TemperatureB0Altitudes \cup TemperatureB1Altitudes})

InitTemperatureGradient ==
    /\ Constructing("_initTemperatureGradient")
    /\ temperatureGradient' = TemperatureGradientOf(seaLevelTemperature)
    /\ step' = step + 1
    /\ UNCHANGED <<data, thrown, seaLevelTemperature, seaLevelPressure,
                   seaLevelWindVector, densityGradient, pressureGradient, result>>

\* for (let alt = -2000; alt <= 65617; alt++)
DensityAltitudes == MIN_ALTITUDE..MAX_ALTITUDE

Density(pressure, temperature) ==
    JsDiv(JsMul(DENSITY_FACTOR, pressure), temperature)

DensityGradientOf(pg, tg) ==
    ObjectOf({<<alt, Density(Get(pg, alt), Get(tg, alt))>> :
                alt \in DensityAltitudes})

InitDensityGradient ==
    /\ Constructing("_initDensityGradient")
    /\ densityGradient' = DensityGradientOf(pressureGradient, temperatureGradient)
    /\ step' = step + 1
    /\ UNCHANGED <<data, thrown, seaLevelTemperature, seaLevelPressure,
                   seaLevelWindVector, pressureGradient, temperatureGradient, result>>

---------------------------------------------------------------------------
(* Queries, on a constructed model *)

\* obj[number]: a number that is no integer names no property of a gradient
PropertyAt(obj, h) ==
    IF h % AltDen = 0 THEN Get(obj, h \div AltDen) ELSE Undefined

\* the range test with its upper end included
TemperatureQueryInclusive(h) ==
    IF ~(h >= MIN_ALTITUDE * AltDen /\ h <= MAX_ALTITUDE * AltDen)
    THEN [method |-> "getTemperatureAtActualAltitude", arg |-> h,
          outcome |-> "throw", value |-> "TypeError"]
    ELSE [method |-> "getTemperatureAtActualAltitude", arg |-> h,
          outcome |-> "return", value |-> PropertyAt(temperatureGradient, h)]

TemperatureQuery(h) ==
    IF ~InRange(h, MIN_ALTITUDE * AltDen, MAX_ALTITUDE * AltDen)
    THEN [method |-> "getTemperatureAtActualAltitude", arg |-> h,
          outcome |-> "throw", value |-> "TypeError"]
    ELSE [method |-> "getTemperatureAtActualAltitude", arg |-> h,
          outcome |-> "return", value |-> PropertyAt(temperatureGradient, h)]

\* a query that drops the gradient when it rejects its argument
GetTemperatureResetting(h) ==
    /\ Constructed
    /\ result' = TemperatureQuery(h)
    /\ temperatureGradient' =
           IF result'.outcome = "throw" THEN EmptyObject ELSE temperatureGradient
    /\ UNCHANGED <<data, step, thrown, seaLevelTemperature, seaLevelPressure,
                   seaLevelWindVector, densityGradient, pressureGradient>>

GetTemperatureAtActualAltitude(h) ==
    /\ Constructed
    /\ result' = TemperatureQuery(h)
    /\ UNCHANGED <<data, step, thrown, model>>

\* a method with an empty body returns undefined
EmptyMethod(name) ==
    /\ Constructed
    /\ result' = [method |-> name, arg |-> NoArgument, outcome |-> "return",
                  value |-> Undefined]
    /\ UNCHANGED <<data, step, thrown, model>>

GetActualAltitudeForPressureAltitude ==
    EmptyMethod("getActualAltitudeForPressureAltitude")
GetPressureAltitudeForActualAltitude ==
    EmptyMethod("getPressureAltitudeForActualAltitude")
GetDensityAltitudeForActualAltitude ==
    EmptyMethod("getDensityAltitudeForActualAltitude")
GetSoundSpeedAtActualAltitude ==
    EmptyMethod("getSoundSpeedAtActualAltitude")
GetWindAtActualAltitude ==
    EmptyMethod("getWindAtActualAltitude")

ExtensionPoints ==
    {"getActualAltitudeForPressureAltitude", "getPressureAltitudeForActualAltitude",
     "getDensityAltitudeForActualAltitude", "getSoundSpeedAtActualAltitude",
     "getWindAtActualAltitude"}

---------------------------------------------------------------------------

Next ==
    \/ InitTemperatureFromSurfaceTemperature
    \/ InitWindFromSurfaceWind
    \/ InitPressureGradient
    \/ InitTemperatureGradient
    \/ InitDensityGradient
    \/ \E h \in QueryAltitudes : GetTemperatureAtActualAltitude(h)
    \/ GetActualAltitudeForPressureAltitude
    \/ GetPressureAltitudeForActualAltitude
    \/ GetDensityAltitudeForActualAltitude
    \/ GetSoundSpeedAtActualAltitude
    \/ GetWindAtActualAltitude

Spec == Init /\ [][Next]_vars

---------------------------------------------------------------------------
(* Properties *)

\* the altitude domain the specification gives the gradients
GradientDomain == (-2000)..65617

FullyBuilt(gradient) == Keys(gradient) = GradientDomain

TemperatureResult == result.method = "getTemperatureAtActualAltitude"

\* C1: getTemperatureAtActualAltitude fails with the out-of-range TypeError
\* for every altitude outside [-2000, 65617), and for every integer altitude
\* inside it returns the entry temperatureGradient[altitude].
C1_RangeValidation ==
    TemperatureResult =>
        LET h == result.arg
            inside == h >= -2000 * AltDen /\ h < 65617 * AltDen
        IN  /\ ~inside => result.outcome = "throw" /\ result.value = "TypeError"
            /\ (inside /\ h % AltDen = 0) =>
                   /\ result.outcome = "return"
                   /\ HasKey(temperatureGradient, h \div AltDen)
                   /\ result.value = Get(temperatureGradient, h \div AltDen)

\* 65617 was rejected
C1_Witness ==
    /\ TemperatureResult
    /\ result.arg = 65617 * AltDen
    /\ result.outcome = "throw"

\* C2: construction never ends in an error because an optional input is
\* absent, and with surfaceWind absent the finished model holds the default
\* wind vector.
C2_AbsentInputsDefaulted ==
    /\ thrown = "none"
    /\ (Constructed /\ data.surfaceWind = AbsentWind) =>
           seaLevelWindVector = DEFAULT_SEA_LEVEL_WIND_VECTOR

\* C3: a model constructed with surfaceTemperature absent holds the standard
\* sea-level temperature, a number of Kelvin.
C3_DefaultSeaLevelTemperature ==
    (Constructed /\ data.surfaceTemperature = Undefined) =>
        /\ TypeOf(seaLevelTemperature) = "number"
        /\ seaLevelTemperature = DEFAULT_SEA_LEVEL_TEMPERATURE_K

\* C4: after construction the three gradients have the same keys, exactly
\* the integers -2000..65617.
C4_DomainCompleteness ==
    Constructed =>
        /\ FullyBuilt(pressureGradient)
        /\ FullyBuilt(temperatureGradient)
        /\ FullyBuilt(densityGradient)

\* a finished model whose last gradient has its top entry
C4_Witness == Constructed /\ HasKey(densityGradient, 65617)

\* C5: at 36089 the stored temperature and pressure equal the values of the
\* troposphere formulas evaluated at 36089.
C5_BoundaryContinuity ==
    Constructed =>
        /\ StrictEquals(Get(temperatureGradient, 36089),
                        B0Temperature(seaLevelTemperature, 36089))
        /\ StrictEquals(Get(pressureGradient, 36089),
                        B0Pressure(seaLevelPressure, seaLevelTemperature, 36089))

\* C6: in the finished model densityGradient[alt] equals
\* 11.796888418 * pressureGradient[alt] / temperatureGradient[alt] at every
\* altitude of the domain.
C6_DensityConsistency ==
    Constructed =>
        \A alt \in GradientDomain :
            StrictEquals(Get(densityGradient, alt),
                         JsDiv(JsMul("11.796888418", Get(pressureGradient, alt)),
                               Get(temperatureGradient, alt)))

\* C7: a call of an extension point never returns undefined; it ends in an
\* explicit error.
C7_ExtensionPointsFailExplicitly ==
    result.method \in ExtensionPoints =>
        /\ result.outcome = "throw"
        /\ result.value # Undefined

\* C8: no query changes the sea-level values or the gradients of a
\* constructed model.
C8_QueriesDoNotMutate ==
    [][Constructed =>
          /\ seaLevelTemperature' = seaLevelTemperature
          /\ seaLevelPressure' = seaLevelPressure
          /\ seaLevelWindVector' = seaLevelWindVector
          /\ densityGradient' = densityGradient
          /\ pressureGradient' = pressureGradient
          /\ temperatureGradient' = temperatureGradient]_vars

\* a query was rejected on a constructed model that still has its gradient
C8_Witness ==
    /\ Constructed
    /\ TemperatureResult
    /\ result.outcome = "throw"
    /\ result.arg = -2001 * AltDen
    /\ FullyBuilt(temperatureGradient)

\* the surface conditions have been taken in
IntakeDone ==
    /\ seaLevelTemperature = CalculatedNewValue
    /\ seaLevelWindVector.t = "array"

\* C9 as stated: intake, then temperature, then pressure, then density; the
\* temperature gradient is fully built when the pressure builder starts.
C9_TemperatureBeforePressure ==
    /\ Constructing("_initTemperatureGradient") => IntakeDone
    /\ Constructing("_initPressureGradient") => FullyBuilt(temperatureGradient)
    /\ Constructing("_initDensityGradient") =>
           FullyBuilt(pressureGradient) /\ FullyBuilt(temperatureGradient)

\* C9 amended: intake, then pressure, then temperature, then density; the
\* pressure gradient is fully built when the temperature builder starts, and
\* both are fully built when the density builder starts.
C9_PressureBeforeTemperature ==
    /\ Constructing("_initPressureGradient") =>
           IntakeDone /\ temperatureGradient = EmptyObject
    /\ Constructing("_initTemperatureGradient") =>
           FullyBuilt(pressureGradient) /\ densityGradient = EmptyObject
    /\ Constructing("_initDensityGradient") =>
           FullyBuilt(pressureGradient) /\ FullyBuilt(temperatureGradient)
    /\ densityGradient # EmptyObject =>
           FullyBuilt(pressureGradient) /\ FullyBuilt(temperatureGradient)

\* the density builder is about to start
C9_Witness ==
    /\ Constructing("_initDensityGradient")
    /\ FullyBuilt(pressureGradient)
    /\ FullyBuilt(temperatureGradient)

\* C10: the altitudes the accessor accepts are the keys of temperatureGradient:
\* a returned value is a stored entry, and every key can be read.
C10_AcceptedAltitudesAreKeys ==
    TemperatureResult =>
        LET h == result.arg
        IN  /\ result.outcome = "return" =>
                /\ h % AltDen = 0
                /\ HasKey(temperatureGradient, h \div AltDen)
                /\ result.value = Get(temperatureGradient, h \div AltDen)
            /\ (h % AltDen = 0 /\ HasKey(temperatureGradient, h \div AltDen)) =>
                   result.outcome = "return"

====
